---- MODULE Spec2Model ----
(***************************************************************************)
(* Model of src/main.go: the telemetry pipeline initialiser (initProvider,  *)
(* handleErr, the shutdown closure) and the workload simulator (main's      *)
(* loop, f1, f2).  The tracing backend is modelled by what the program      *)
(* asks of it: tracer.Start derives a child context and registers a span,   *)
(* span.End closes it.  The lines written to standard output are part of    *)
(* the per-iteration list of events.                                        *)
(***************************************************************************)
EXTENDS Integers, Sequences, FiniteSets, TLC

\* ---------------------------------------------------------------- bounds
\* Number of iterations whose spans are kept (span ids and the iteration
\* counter are rings: an id is reused only after MaxIter iterations).
MaxIter == 2
\* Int63n(n) and Int31n(n) are sampled at their EdgeDraws smallest and
\* EdgeDraws largest values.
EdgeDraws == 1

\* The wall clock is kept modulo 5 seconds: the program observes only
\* Unix() % 5, which this quotient preserves exactly.
ClockRing == 5
SpanRing == 2 * MaxIter
NoSpan == -1
NoValue == -1

\* ------------------------------------------------------------- variables
VARIABLES
  pc,          \* position of the main goroutine
  fatal,       \* message of log.Fatalf, "" while none was issued
  calls,       \* how often each constructor / the shutdown closure was called
  exporter,    \* "none" | "failed" | "up" | "down"
  resource,    \* "none" | "failed" | "ok"
  provider,    \* tracerProvider: "none" | "running" | "shutdown"
  pusher,      \* "none" | "running" | "stopped"
  globals,     \* process-wide defaults installed through package otel
  deferred,    \* main has registered `defer shutdown()`
  lastPush,    \* fate of the push made by pusher.Stop: "none" | "delivered" | "dropped"
  defaultCtx,  \* main's defaultCtx
  now,         \* wall clock, Unix seconds (modulo ClockRing)
  iter,        \* iteration of the for loop (modulo MaxIter)
  nextID,      \* next span id handed out by the tracer
  spans,       \* spans registered with the tracer
  f1,          \* f1's frame
  f2,          \* f2's frame
  events       \* events of the current iteration (calls of the tracer, the clock
               \* and the lines written to standard output), in order

vars == <<pc, fatal, calls, exporter, resource, provider, pusher, globals,
          deferred, lastPush, defaultCtx, now, iter, nextID, spans, f1, f2,
          events>>

pipeline == <<calls, exporter, resource, provider, pusher, globals, deferred, lastPush>>

\* ------------------------------------------------------------ data model
Background == [span |-> NoSpan, baggage |-> <<>>]

commonLabels == << <<"method", "repl">>, <<"client", "cli">> >>

ContextWithValues(ctx, labels) == [ctx EXCEPT !.baggage = ctx.baggage \o labels]

EmptySlot == [used |-> FALSE, parent |-> NoSpan, name |-> "", ends |-> 0,
              by |-> "", iter |-> 0]

NoFrame == [live |-> FALSE, ctx |-> Background, childCtx |-> Background,
            span |-> NoSpan, modulus |-> 0, drawn |-> FALSE,
            sleep |-> 0, slept |-> FALSE, nr |-> 0, i |-> 0,
            randLineLength |-> NoValue]

NewFrame(ctx) == [NoFrame EXCEPT !.live = TRUE, !.ctx = ctx]

Ev(u, e, k) == [unit |-> u, ev |-> e, index |-> k]

\* tracer.Start(ctx, name): a new span whose parent is the span of ctx.
TracerStartSpans(ctx, id, name, by) ==
  [spans EXCEPT ![id] = [used |-> TRUE, parent |-> ctx.span, name |-> name,
                         ends |-> 0, by |-> by, iter |-> iter]]

\* the context tracer.Start returns: ctx with the new span attached.
TracerStartCtx(ctx, id) == [ctx EXCEPT !.span = id]

\* span.End()
SpanEnd(id) == [spans EXCEPT ![id].ends = @ + 1]

\* rng.Int63n(n): a value of [0, n), sampled at the edges of the range.
Int63n(n) == {x \in 0..(n - 1) : x < EdgeDraws \/ x >= n - EdgeDraws}

\* rng.Int31n(n): a value of [0, n), sampled likewise.
Int31n(n) == {x \in 0..(n - 1) : x < EdgeDraws \/ x >= n - EdgeDraws}

\* Go's % truncates towards zero.
GoRem(a, b) == IF a >= 0 THEN a % b ELSE -((-a) % b)

\* time.Sleep(d ms): the clock moves on by at least d milliseconds.
AfterSleep(ms) == {(now + (ms \div 1000)) % ClockRing,
                   (now + (ms \div 1000) + 1) % ClockRing}

InitPCs == {"newExporter", "newResource", "wire", "defer", "setup"}
F1PCs == {"f1_start", "f1_switch", "f1_sleep", "f1_end", "f1_nr", "f1_lines", "f1_latency"}
F2PCs == {"f2_start", "f2_switch", "f2_sleep", "f2_end", "f2_nr", "f2_lines", "f2_latency"}
LoopPCs == {"loop"} \cup F1PCs \cup F2PCs
ShutdownPCs == {"sd_provider", "sd_exporter", "sd_pusher"}

\* ------------------------------------------------------------------ init
Init ==
  /\ pc = "newExporter"
  /\ fatal = ""
  /\ calls = [newExporter |-> 0, newResource |-> 0, shutdown |-> 0]
  /\ exporter = "none"
  /\ resource = "none"
  /\ provider = "none"
  /\ pusher = "none"
  /\ globals = [propagator |-> FALSE, tracerProvider |-> FALSE, meterProvider |-> FALSE]
  /\ deferred = FALSE
  /\ lastPush = "none"
  /\ defaultCtx = Background
  /\ now \in 0..(ClockRing - 1)
  /\ iter = 0
  /\ nextID = 0
  /\ spans = [id \in 0..(SpanRing - 1) |-> EmptySlot]
  /\ f1 = NoFrame
  /\ f2 = NoFrame
  /\ events = <<>>

\* ------------------------------------------------------------- handleErr
HandleErrNoExit(err, message, next) ==
  /\ fatal' = IF err THEN message ELSE fatal
  /\ pc' = next

\* handleErr: log.Fatalf ends the process at once; deferred calls do not run.
HandleErr(err, message, next) ==
  IF err
    THEN /\ fatal' = message
         /\ pc' = "exited"
    ELSE /\ fatal' = fatal
         /\ pc' = next

\* ---------------------------------------------------------- initProvider
NewExporter ==
  /\ pc = "newExporter"
  /\ \E ok \in BOOLEAN :
       /\ exporter' = IF ok THEN "up" ELSE "failed"
       /\ HandleErr(~ok, "failed to create exporter", "newResource")
  /\ calls' = [calls EXCEPT !.newExporter = @ + 1]
  /\ UNCHANGED <<resource, provider, pusher, globals, deferred, lastPush,
                 defaultCtx, now, iter, nextID, spans, f1, f2, events>>

NewResource ==
  /\ pc = "newResource"
  /\ \E ok \in BOOLEAN :
       /\ resource' = IF ok THEN "ok" ELSE "failed"
       /\ HandleErr(~ok, "failed to create resource", "wire")
  /\ calls' = [calls EXCEPT !.newResource = @ + 1]
  /\ UNCHANGED <<exporter, provider, pusher, globals, deferred, lastPush,
                 defaultCtx, now, iter, nextID, spans, f1, f2, events>>

\* batch span processor, tracer provider, pusher; the globals; pusher.Start.
Wire ==
  /\ pc = "wire"
  /\ provider' = "running"
  /\ globals' = [propagator |-> TRUE, tracerProvider |-> TRUE, meterProvider |-> TRUE]
  /\ pusher' = "running"
  /\ pc' = "defer"
  /\ UNCHANGED <<fatal, calls, exporter, resource, deferred, lastPush,
                 defaultCtx, now, iter, nextID, spans, f1, f2, events>>

\* ------------------------------------------------------------------ main
MainDefer ==
  /\ pc = "defer"
  /\ deferred' = TRUE
  /\ pc' = "setup"
  /\ UNCHANGED <<fatal, calls, exporter, resource, provider, pusher, globals,
                 lastPush, defaultCtx, now, iter, nextID, spans, f1, f2,
                 events>>

MainSetup ==
  /\ pc = "setup"
  /\ defaultCtx' = ContextWithValues(Background, commonLabels)
  /\ pc' = "loop"
  /\ UNCHANGED <<fatal, pipeline, now, iter, nextID, spans, f1, f2, events>>

\* the spans still kept of the iteration whose ring position k is taken over.
Retire(k) ==
  [id \in 0..(SpanRing - 1) |->
     IF spans[id].used /\ spans[id].iter = k THEN EmptySlot ELSE spans[id]]

LoopOnce ==
  /\ pc = "loop"
  /\ events = <<>>
  /\ f1' = NewFrame(defaultCtx)
  /\ iter' = (iter + 1) % MaxIter
  /\ spans' = Retire((iter + 1) % MaxIter)
  /\ events' = <<>>
  /\ pc' = "f1_start"
  /\ UNCHANGED <<fatal, pipeline, defaultCtx, now, nextID, f2>>

\* one turn of `for { f1(defaultCtx, rng, tracer) }`: the call of f1.
Loop ==
  /\ pc = "loop"
  /\ f1' = NewFrame(defaultCtx)
  /\ iter' = (iter + 1) % MaxIter
  /\ spans' = Retire((iter + 1) % MaxIter)
  /\ events' = <<>>
  /\ pc' = "f1_start"
  /\ UNCHANGED <<fatal, pipeline, defaultCtx, now, nextID, f2>>

\* -------------------------------------------------------------------- f1
F1Start ==
  /\ pc = "f1_start"
  /\ spans' = TracerStartSpans(f1.ctx, nextID, "ExecuteRequest", "f1")
  /\ f1' = [f1 EXCEPT !.span = nextID, !.childCtx = TracerStartCtx(f1.ctx, nextID)]
  /\ nextID' = (nextID + 1) % SpanRing
  /\ events' = Append(events, Ev("f1", "start", -1))
  /\ pc' = "f1_switch"
  /\ UNCHANGED <<fatal, pipeline, defaultCtx, now, iter, f2>>

F1HasCase(m) == m \in {0, 1, 2, 3, 4}

F1SleepChoicesSwapped(m) ==
  CASE m = 0 -> Int63n(17001)
    [] m = 1 -> Int63n(8007)
    [] m = 2 -> Int63n(87)
    [] m = 3 -> Int63n(917)
    [] m = 4 -> Int63n(1173)
    [] OTHER -> {0}

\* the switch of f1: the values `sleep` can take for a modulus.
F1SleepChoices(m) ==
  CASE m = 0 -> Int63n(17001)
    [] m = 1 -> Int63n(8007)
    [] m = 2 -> Int63n(917)
    [] m = 3 -> Int63n(87)
    [] m = 4 -> Int63n(1173)
    [] OTHER -> {0}

F1Switch ==
  /\ pc = "f1_switch"
  /\ LET m == GoRem(now, 5) IN
       \E s \in F1SleepChoices(m) :
         f1' = [f1 EXCEPT !.modulus = m, !.drawn = F1HasCase(m),
                          !.sleep = s]
  /\ events' = Append(events, Ev("f1", "select", -1))
  /\ pc' = "f1_sleep"
  /\ UNCHANGED <<fatal, pipeline, defaultCtx, now, iter, nextID, spans, f2>>

\* time.Sleep; `modulus` and `sleep` are not read again: the frame drops them.
F1Sleep ==
  /\ pc = "f1_sleep"
  /\ now' \in AfterSleep(f1.sleep)
  /\ f1' = [f1 EXCEPT !.slept = TRUE, !.sleep = 0, !.modulus = 0]
  /\ events' = Append(events, Ev("f1", "sleep", -1))
  /\ pc' = "f1_end"
  /\ UNCHANGED <<fatal, pipeline, defaultCtx, iter, nextID, spans, f2>>

F1EndDeferred ==
  /\ pc = "f1_end"
  /\ pc' = "f1_nr"
  /\ UNCHANGED <<fatal, pipeline, defaultCtx, now, iter, nextID, spans, f1, f2,
                 events>>

F1End ==
  /\ pc = "f1_end"
  /\ spans' = SpanEnd(f1.span)
  /\ events' = Append(events, Ev("f1", "end", -1))
  /\ pc' = "f1_nr"
  /\ UNCHANGED <<fatal, pipeline, defaultCtx, now, iter, nextID, f1, f2>>

F1NrInclusive ==
  /\ pc = "f1_nr"
  /\ \E n \in Int31n(7 + 1) : f1' = [f1 EXCEPT !.nr = n, !.i = 0]
  /\ pc' = "f1_lines"
  /\ UNCHANGED <<fatal, pipeline, defaultCtx, now, iter, nextID, spans, f2,
                 events>>

F1Nr ==
  /\ pc = "f1_nr"
  /\ \E n \in Int31n(7) : f1' = [f1 EXCEPT !.nr = n, !.i = 0]
  /\ pc' = "f1_lines"
  /\ UNCHANGED <<fatal, pipeline, defaultCtx, now, iter, nextID, spans, f2,
                 events>>

F1Line ==
  /\ pc = "f1_lines"
  /\ f1.i < f1.nr
  /\ \E v \in Int63n(999) : f1' = [f1 EXCEPT !.randLineLength = v, !.i = @ + 1]
  /\ events' = Append(events, Ev("f1", "line", f1.i))
  /\ UNCHANGED <<pc, fatal, pipeline, defaultCtx, now, iter, nextID, spans, f2>>

F1CallF2WithCtx ==
  /\ pc = "f1_lines"
  /\ ~(f1.i < f1.nr)
  /\ f1' = [f1 EXCEPT !.randLineLength = NoValue]
  /\ f2' = NewFrame(f1.ctx)
  /\ pc' = "f2_start"
  /\ UNCHANGED <<fatal, pipeline, defaultCtx, now, iter, nextID, spans, events>>

\* the loop of f1 is over (its randLineLength goes out of scope): f2 is called.
F1CallF2 ==
  /\ pc = "f1_lines"
  /\ ~(f1.i < f1.nr)
  /\ f1' = [f1 EXCEPT !.randLineLength = NoValue]
  /\ f2' = NewFrame(f1.childCtx)
  /\ pc' = "f2_start"
  /\ UNCHANGED <<fatal, pipeline, defaultCtx, now, iter, nextID, spans, events>>

F1Latency ==
  /\ pc = "f1_latency"
  /\ events' = Append(events, Ev("f1", "latency", -1))
  /\ f1' = NoFrame
  /\ pc' = "loop"
  /\ UNCHANGED <<fatal, pipeline, defaultCtx, now, iter, nextID, spans, f2>>

\* -------------------------------------------------------------------- f2
F2Start ==
  /\ pc = "f2_start"
  /\ spans' = TracerStartSpans(f2.ctx, nextID, "ExecuteRequest", "f2")
  /\ f2' = [f2 EXCEPT !.span = nextID]
  /\ nextID' = (nextID + 1) % SpanRing
  /\ events' = Append(events, Ev("f2", "start", -1))
  /\ pc' = "f2_switch"
  /\ UNCHANGED <<fatal, pipeline, defaultCtx, now, iter, f1>>

F2HasCase(m) == m \in {0, 1, 2, 3, 4}

\* the switch of f2.
F2SleepChoices(m) ==
  CASE m = 0 -> Int63n(17001)
    [] m = 1 -> Int63n(8007)
    [] m = 2 -> Int63n(917)
    [] m = 3 -> Int63n(87)
    [] m = 4 -> Int63n(1173)
    [] OTHER -> {0}

F2Switch ==
  /\ pc = "f2_switch"
  /\ LET m == GoRem(now, 5) IN
       \E s \in F2SleepChoices(m) :
         f2' = [f2 EXCEPT !.modulus = m, !.drawn = F2HasCase(m),
                          !.sleep = s]
  /\ events' = Append(events, Ev("f2", "select", -1))
  /\ pc' = "f2_sleep"
  /\ UNCHANGED <<fatal, pipeline, defaultCtx, now, iter, nextID, spans, f1>>

\* time.Sleep; `modulus` and `sleep` are not read again: the frame drops them.
F2Sleep ==
  /\ pc = "f2_sleep"
  /\ now' \in AfterSleep(f2.sleep)
  /\ f2' = [f2 EXCEPT !.slept = TRUE, !.sleep = 0, !.modulus = 0]
  /\ events' = Append(events, Ev("f2", "sleep", -1))
  /\ pc' = "f2_end"
  /\ UNCHANGED <<fatal, pipeline, defaultCtx, iter, nextID, spans, f1>>

F2EndSkipped ==
  /\ pc = "f2_end"
  /\ events' = Append(events, Ev("f2", "end", -1))
  /\ pc' = "f2_nr"
  /\ UNCHANGED <<fatal, pipeline, defaultCtx, now, iter, nextID, spans, f1, f2>>

F2End ==
  /\ pc = "f2_end"
  /\ spans' = SpanEnd(f2.span)
  /\ events' = Append(events, Ev("f2", "end", -1))
  /\ pc' = "f2_nr"
  /\ UNCHANGED <<fatal, pipeline, defaultCtx, now, iter, nextID, f1, f2>>

F2Nr ==
  /\ pc = "f2_nr"
  /\ \E n \in Int31n(7) : f2' = [f2 EXCEPT !.nr = n, !.i = 0]
  /\ pc' = "f2_lines"
  /\ UNCHANGED <<fatal, pipeline, defaultCtx, now, iter, nextID, spans, f1,
                 events>>

F2Line ==
  /\ pc = "f2_lines"
  /\ f2.i < f2.nr
  /\ \E v \in Int63n(999) : f2' = [f2 EXCEPT !.randLineLength = v, !.i = @ + 1]
  /\ events' = Append(events, Ev("f2", "line", f2.i))
  /\ UNCHANGED <<pc, fatal, pipeline, defaultCtx, now, iter, nextID, spans, f1>>

\* the loop of f2 is over: the latency line, and the return to f1.
F2Latency ==
  /\ pc = "f2_lines"
  /\ ~(f2.i < f2.nr)
  /\ events' = Append(events, Ev("f2", "latency", -1))
  /\ f2' = NoFrame
  /\ pc' = "f1_latency"
  /\ UNCHANGED <<fatal, pipeline, defaultCtx, now, iter, nextID, spans, f1>>

\* ------------------------------------------------- the shutdown closure
\* main's deferred call runs when main unwinds.  The loop of main has no
\* exit, so this step is not part of Next; UnwindSpec adds it, to examine
\* the closure as it behaves whenever it is invoked.
Unwind ==
  /\ pc \in LoopPCs
  /\ deferred
  /\ calls' = [calls EXCEPT !.shutdown = @ + 1]
  /\ pc' = "sd_provider"
  /\ UNCHANGED <<fatal, exporter, resource, provider, pusher, globals, deferred,
                 lastPush, defaultCtx, now, iter, nextID, spans, f1, f2,
                 events>>

ShutdownProvider ==
  /\ pc = "sd_provider"
  /\ \E ok \in BOOLEAN :
       /\ provider' = IF ok THEN "shutdown" ELSE provider
       /\ HandleErr(~ok, "failed to shutdown provider", "sd_exporter")
  /\ UNCHANGED <<calls, exporter, resource, pusher, globals, deferred, lastPush,
                 defaultCtx, now, iter, nextID, spans, f1, f2, events>>

ShutdownExporter ==
  /\ pc = "sd_exporter"
  /\ \E ok \in BOOLEAN :
       /\ exporter' = IF ok THEN "down" ELSE exporter
       /\ HandleErr(~ok, "failed to stop exporter", "sd_pusher")
  /\ UNCHANGED <<calls, resource, provider, pusher, globals, deferred, lastPush,
                 defaultCtx, now, iter, nextID, spans, f1, f2, events>>

\* pusher.Stop(): stops the periodic push and makes one last push to the
\* exporter, which delivers it only while it is up.
PusherStop ==
  /\ pc = "sd_pusher"
  /\ pusher' = "stopped"
  /\ lastPush' = IF exporter = "up" THEN "delivered" ELSE "dropped"
  /\ pc' = "exited"
  /\ UNCHANGED <<fatal, calls, exporter, resource, provider, globals, deferred,
                 defaultCtx, now, iter, nextID, spans, f1, f2, events>>

\* -------------------------------------------------------- specifications
Next ==
  \/ NewExporter \/ NewResource \/ Wire \/ MainDefer \/ MainSetup \/ Loop
  \/ F1Start \/ F1Switch \/ F1Sleep \/ F1End \/ F1Nr \/ F1Line \/ F1CallF2
  \/ F1Latency
  \/ F2Start \/ F2Switch \/ F2Sleep \/ F2End \/ F2Nr \/ F2Line \/ F2Latency

Spec == Init /\ [][Next]_vars

\* The main goroutine is the only thread of control and every statement of
\* it, time.Sleep included, completes: the program takes its next step.
FairSpec == Spec /\ WF_vars(Next)

UnwindNext ==
  \/ Next
  \/ Unwind \/ ShutdownProvider \/ ShutdownExporter \/ PusherStop

UnwindSpec == Init /\ [][UnwindNext]_vars

\* ------------------------------------------------------------ the claims
Units == {"f1", "f2"}
SpanIDs == 0..(SpanRing - 1)

\* the events of one unit of work, in order
Of(u) == SelectSeq(events, LAMBDA e : e.unit = u)
\* the measurement lines of one unit of work, in order
LinesOf(u) == SelectSeq(events, LAMBDA e : e.unit = u /\ e.ev = "line")
Has(u, e) == \E k \in DOMAIN events : events[k].unit = u /\ events[k].ev = e
\* the span the unit started in the current iteration, if any
SpanOf(u) == {id \in SpanIDs : spans[id].used /\ spans[id].by = u /\ spans[id].iter = iter}

\* C1: in every iteration End(inner span) occurs strictly before
\* End(outer span): whenever the outer span has been ended, the inner span
\* of that iteration was ended earlier.
C1_InnerEndBeforeOuterEnd ==
  \A k \in DOMAIN events :
    (events[k].unit = "f1" /\ events[k].ev = "end")
      => \E j \in 1..(k - 1) : events[j].unit = "f2" /\ events[j].ev = "end"

\* no span is ended twice, an open span belongs to the live frame that
\* started it, and a function that has returned has ended its span once.
C2_Safety ==
  /\ \A id \in SpanIDs : spans[id].ends <= 1
  /\ \A id \in SpanIDs :
       (spans[id].used /\ spans[id].ends = 0) =>
          \/ spans[id].by = "f1" /\ f1.live /\ f1.span = id /\ pc \in {"f1_switch", "f1_sleep", "f1_end"}
          \/ spans[id].by = "f2" /\ f2.live /\ f2.span = id /\ pc \in {"f2_switch", "f2_sleep", "f2_end"}
  /\ (pc = "f1_latency") => \E id \in SpanOf("f2") : spans[id].ends = 1
  /\ (pc = "loop" /\ events # <<>>) =>
        /\ \E id \in SpanOf("f1") : spans[id].ends = 1
        /\ \E id \in SpanOf("f2") : spans[id].ends = 1

Open(id) == spans[id].used /\ spans[id].ends = 0

\* C2: every span started is eventually ended, is ended exactly once, and
\* is ended before the function that started it returns.
C2_SpansEndedExactlyOnce ==
  /\ []C2_Safety
  /\ \A id \in SpanIDs : Open(id) ~> (spans[id].used /\ spans[id].ends = 1)

C2_Witness ==
  /\ pc = "loop"
  /\ \E a \in SpanOf("f1"), b \in SpanOf("f2") : spans[a].ends = 1 /\ spans[b].ends = 1

\* C3: on every exit path of the process the shutdown procedure has been
\* invoked exactly once.
C3_ShutdownOnceOnExit == (pc = "exited") => (calls.shutdown = 1)

NothingStarted ==
  /\ \A id \in SpanIDs : ~spans[id].used
  /\ events = <<>>
  /\ ~f1.live /\ ~f2.live
  /\ ~globals.tracerProvider /\ ~globals.meterProvider /\ ~globals.propagator

\* C4: a failed exporter or resource construction ends the process at once
\* with the corresponding fatal message and without a retry; no span has
\* been started, no line printed and no global provider installed.
C4_InitFailureIsFatal ==
  /\ (exporter = "failed") =>
        pc = "exited" /\ fatal = "failed to create exporter" /\ NothingStarted
  /\ (resource = "failed") =>
        pc = "exited" /\ fatal = "failed to create resource" /\ NothingStarted
  /\ calls.newExporter <= 1 /\ calls.newResource <= 1

C4_Witness ==
  pc = "exited" /\ exporter = "failed" /\ calls.newExporter = 1 /\ resource = "none"

\* the table of the claim: modulus -> exclusive upper bound in milliseconds
ClaimedBound(m) ==
  CASE m = 0 -> 17001 [] m = 1 -> 8007 [] m = 2 -> 917 [] m = 3 -> 87 [] m = 4 -> 1173

DelayInBucket(f) ==
  /\ f.modulus \in 0..4
  /\ f.modulus = now % 5
  /\ f.drawn
  /\ f.sleep >= 0
  /\ f.sleep < ClaimedBound(f.modulus)

\* C5: the delay a unit of work is about to sleep lies in [0, bound) for the
\* bound the table gives for m = Unix() % 5, m being read by each unit
\* itself, and every m of 0..4 has the delay assigned by a draw.
C5_DelayWithinBound ==
  /\ (pc = "f1_sleep") => DelayInBucket(f1)
  /\ (pc = "f2_sleep") => DelayInBucket(f2)
  /\ (pc \in (F1PCs \ {"f1_start", "f1_switch"}) \cup F2PCs) => f1.drawn
  /\ (pc \in F2PCs \ {"f2_start", "f2_switch"}) => f2.drawn

C5_Witness ==
  /\ pc = "f2_sleep" /\ f2.modulus = 4 /\ f2.sleep = 1172
  /\ f1.slept /\ Has("f1", "select")

\* C6: the measurement count n of a unit satisfies 0 <= n <= 6, exactly n
\* measurements are surfaced, with indices 0, 1, ..., n-1 in this order, and
\* every value v surfaced satisfies 0 <= v < 999.
C6_Measurements ==
  /\ f1.nr \in 0..6 /\ f2.nr \in 0..6
  /\ \A u \in Units : \A k \in 1..Len(LinesOf(u)) : LinesOf(u)[k].index = k - 1
  /\ (pc = "f1_lines") => Len(LinesOf("f1")) = f1.i /\ f1.i <= f1.nr
  /\ (pc = "f2_lines") => Len(LinesOf("f2")) = f2.i /\ f2.i <= f2.nr
  /\ (pc \in F2PCs \cup {"f1_latency"}) => Len(LinesOf("f1")) = f1.nr
  /\ (pc = "f2_lines" /\ ~(f2.i < f2.nr)) => Len(LinesOf("f2")) = f2.nr
  /\ (pc \in F1PCs \ {"f1_lines", "f1_latency"}) => LinesOf("f1") = <<>>
  /\ (pc \in (F1PCs \cup F2PCs) \ {"f2_lines", "f1_latency"}) => LinesOf("f2") = <<>>
  /\ \A f \in {f1, f2} :
        (f.randLineLength # NoValue) => (f.randLineLength >= 0 /\ f.randLineLength < 999)
  /\ (pc = "f1_lines" /\ f1.i > 0) => f1.randLineLength # NoValue
  /\ (pc = "f2_lines" /\ f2.i > 0) => f2.randLineLength # NoValue
  /\ (pc = "f1_lines" /\ f1.i > 0) => events[Len(events)] = Ev("f1", "line", f1.i - 1)
  /\ (pc = "f2_lines" /\ f2.i > 0) => events[Len(events)] = Ev("f2", "line", f2.i - 1)

C6_Witness ==
  /\ pc = "f2_lines" /\ f2.nr = 6 /\ f2.i = 6 /\ f1.nr = 0
  /\ f2.randLineLength = 998

\* C7: when the shutdown procedure is invoked all three steps are carried
\* out, and the last push of the pusher is handed to an exporter that has
\* not been shut down, so that it reaches the receiver.
C7_ShutdownFlushesAll ==
  /\ (calls.shutdown > 0 /\ pc = "exited") =>
        provider = "shutdown" /\ exporter = "down" /\ pusher = "stopped"
  /\ (pusher = "stopped") => lastPush = "delivered"

\* C8: the outer span is started from the root context (no parent span,
\* labels method=repl and client=cli); the inner span's parent is the outer
\* span of the same iteration; the root context never changes.
C8_Parentage ==
  /\ (pc \in LoopPCs) => defaultCtx = [span |-> NoSpan, baggage |-> commonLabels]
  /\ f1.live => f1.ctx = defaultCtx
  /\ \A id \in SpanIDs : (spans[id].used /\ spans[id].by = "f1") => spans[id].parent = NoSpan
  /\ \A id \in SpanIDs : (spans[id].used /\ spans[id].by = "f2") =>
        /\ spans[id].parent \in SpanIDs
        /\ spans[id].parent # id
        /\ spans[spans[id].parent].used
        /\ spans[spans[id].parent].by = "f1"
        /\ spans[spans[id].parent].iter = spans[id].iter
  /\ (f2.live /\ f2.span # NoSpan) =>
        /\ spans[f2.span].parent = f1.span
        /\ f2.ctx = [span |-> f1.span, baggage |-> commonLabels]

C8_Witness ==
  /\ pc = "f2_sleep"
  /\ spans[f2.span].parent = f1.span
  /\ \E id \in SpanIDs : spans[id].used /\ spans[id].iter # iter /\ spans[id].by = "f1"

Rank(e) ==
  CASE e = "start" -> 1 [] e = "select" -> 2 [] e = "sleep" -> 3
    [] e = "end" -> 4 [] e = "line" -> 5 [] e = "latency" -> 6

\* C9: within each unit the events occur in the order Started, Working,
\* Ended, Reported: the span is started before the delay bound is selected,
\* is ended immediately after the delay, and no measurement or latency line
\* of the unit is surfaced before the unit's span has been ended.
C9_UnitOrder ==
  /\ \A u \in Units :
       LET s == Of(u) IN
         /\ (s # <<>>) => s[1].ev = "start"
         /\ \A k \in 1..(Len(s) - 1) :
              \/ Rank(s[k + 1].ev) = Rank(s[k].ev) + 1
              \/ s[k].ev = "line" /\ s[k + 1].ev = "line"
              \/ s[k].ev = "end" /\ s[k + 1].ev = "latency"
  /\ \A k \in 1..(Len(events) - 1) :
       (events[k].ev = "sleep") =>
          events[k + 1].unit = events[k].unit /\ events[k + 1].ev = "end"
  /\ \A u \in Units :
       /\ (Has(u, "start") /\ ~Has(u, "end")) => \E id \in SpanOf(u) : spans[id].ends = 0
       /\ (Has(u, "select") \/ Has(u, "sleep")) => SpanOf(u) # {}
       /\ (Has(u, "line") \/ Has(u, "latency")) => \E id \in SpanOf(u) : spans[id].ends = 1

C9_Witness ==
  /\ pc = "loop"
  /\ Len(LinesOf("f1")) = 6 /\ Len(LinesOf("f2")) = 6
  /\ events[Len(events)] = Ev("f1", "latency", -1)

C10_NoOverlap ==
  /\ (pc = "loop" /\ events # <<>>) =>
        /\ events[Len(events)] = Ev("f1", "latency", -1)
        /\ Has("f2", "latency")
        /\ ~f1.live /\ ~f2.live
  /\ (pc = "f1_start") => events = <<>> /\ ~f2.live
  /\ (pc \in LoopPCs) => fatal = ""

\* C10: once initialisation has succeeded the simulator runs forever: no
\* step leaves the loop, every unit started reaches Reported, every
\* completed iteration is followed by a new one, and iterations do not
\* overlap.
C10_RunsForever ==
  /\ [][(pc \in LoopPCs) => (pc' \in LoopPCs)]_vars
  /\ []C10_NoOverlap
  /\ (pc = "loop") ~> (pc = "f1_start")
  /\ Has("f1", "start") ~> (pc = "loop")
  /\ Has("f2", "start") ~> Has("f2", "latency")
  /\ (pc \in LoopPCs) ~> (pc = "loop" /\ iter = 0)
  /\ (pc \in LoopPCs) ~> (pc = "loop" /\ iter # 0)

C10_Witness ==
  pc = "loop" /\ events # <<>> /\ iter = 0 /\ Has("f2", "latency")

====
